---- MODULE Spec2Model ----
(***************************************************************************)
(* Selective staging in the diff viewer: the patch synthesizer             *)
(* (generatePatch) and the split-view row alignment (SplitViewRows) of     *)
(* components/DiffView.tsx.                                                *)
(*                                                                         *)
(* Text is modelled as a sequence of one-character strings, so that the    *)
(* formatting of numbers, the header regular expression and the joining    *)
(* of lines are computed character by character as the code does.          *)
(***************************************************************************)
EXTENDS Integers, Sequences, FiniteSets, TLC

VARIABLES fileDiff, selectedIndices, patch, hunkIndex, i, rows, pc,
          selectedFile, selectedFileDiff, delivered, toggledAt, viewMode,
          isStaging, stage, staged, pending,
          selectedRepoPath, diffRepo, requests, applyCall

vars == <<fileDiff, selectedIndices, patch, hunkIndex, i, rows, pc,
          selectedFile, selectedFileDiff, delivered, toggledAt, viewMode,
          isStaging, stage, staged, pending,
          selectedRepoPath, diffRepo, requests, applyCall>>

\* the state of the store and of the mounted DiffView around a stage action
shellVars == <<selectedFile, selectedFileDiff, delivered, toggledAt, viewMode,
               isStaging, stage, staged, pending>>

\* the selected repository, the repository the diff in the store came from,
\* the get_file_diff calls in flight with their repository, and the
\* arguments of the last apply_patch call
repoVars == <<selectedRepoPath, diffRepo, requests, applyCall>>

\* the state of one SplitViewRows render
splitVars == <<hunkIndex, i, rows, pc>>

\* selectedFile: null
NoFile == <<>>

\* selectedFileDiff: null (no file has the empty path)
NoDiff == [path |-> <<>>, hunks |-> <<>>]

\* the handler-local values of handleStageSelected / stageChunk when none runs
NoStage ==
  [file |-> NoFile, diffId |-> 0, selection |-> {}, applied |-> FALSE,
   fetched |-> NoFile, mounted |-> FALSE]

\* the repositories of the repository list
Repos == {"r1", "r2"}

\* no repository: selectedFileDiff is null, or no apply_patch call was made
NoRepo == ""

NoApply == [into |-> NoRepo, from |-> NoRepo]

\* the store as created: no repository selected, nothing in flight
RepoIdle ==
  /\ selectedRepoPath = NoRepo
  /\ diffRepo = NoRepo
  /\ requests = {}
  /\ applyCall = NoApply

\* one repository is selected (RepoView is rendered) and stays selected
RepoOpen ==
  /\ selectedRepoPath = "r1"
  /\ diffRepo = NoRepo
  /\ requests = {}
  /\ applyCall = NoApply

\* the store as created, no DiffView mounted, no stage action running
ShellIdle ==
  /\ selectedFile = NoFile
  /\ selectedFileDiff = NoDiff
  /\ delivered = 0
  /\ toggledAt = <<>>
  /\ viewMode = "unified"
  /\ isStaging = FALSE
  /\ stage = "idle"
  /\ staged = NoStage
  /\ pending = {}

(***************************************************************************)
(* Bounds of the explored inputs.                                          *)
(***************************************************************************)
\* hunks in a FileDiff given to generatePatch
MaxHunks == 2
\* lines of a FileDiff given to generatePatch, all hunks together
MaxLines == 3
\* lines of the hunk given to SplitViewRows
MaxSplitLines == 5
\* FileDiff objects the backend delivers to the store in one run
MaxDiffs == 3

(***************************************************************************)
(* Characters, numbers and strings.                                        *)
(***************************************************************************)
NL == "\n"

Digits == <<"0", "1", "2", "3", "4", "5", "6", "7", "8", "9">>

IsDigit(c) == \E d \in 1..10 : Digits[d] = c

DigitVal(c) == (CHOOSE d \in 1..10 : Digits[d] = c) - 1

\* a number inside a template literal: decimal, no leading zero
RECURSIVE NumToStr(_)
NumToStr(n) ==
  IF n < 10 THEN <<Digits[n + 1]>>
  ELSE NumToStr(n \div 10) \o <<Digits[(n % 10) + 1]>>

\* parseInt of a captured \d+ group
RECURSIVE parseInt(_)
parseInt(s) ==
  IF Len(s) = 0 THEN 0
  ELSE 10 * parseInt(SubSeq(s, 1, Len(s) - 1)) + DigitVal(s[Len(s)])

\* String.prototype.startsWith
startsWith(s, prefix) ==
  /\ Len(prefix) <= Len(s)
  /\ SubSeq(s, 1, Len(prefix)) = prefix

\* Array.prototype.join
RECURSIVE join(_, _)
join(strs, sep) ==
  IF Len(strs) = 0 THEN <<>>
  ELSE IF Len(strs) = 1 THEN strs[1]
  ELSE strs[1] \o sep \o join(Tail(strs), sep)

\* the selection key `${hunkIndex}-${lineIndex}` (both zero-based)
Key(h, l) == NumToStr(h) \o <<"-">> \o NumToStr(l)

(***************************************************************************)
(* The hunk-header pattern                                                 *)
(*   /@@ \-(\d+)(?:,(\d+))? \+(\d+)(?:,(\d+))? @@/                         *)
(* It is not anchored: match() returns the leftmost match.                 *)
(***************************************************************************)
\* end (exclusive) of the longest run of digits of s starting at p
RECURSIVE DigitsEnd(_, _)
DigitsEnd(s, p) ==
  IF p <= Len(s) /\ IsDigit(s[p]) THEN DigitsEnd(s, p + 1) ELSE p

LitAt(s, p, lit) ==
  /\ p + Len(lit) - 1 <= Len(s)
  /\ SubSeq(s, p, p + Len(lit) - 1) = lit

\* (?:,(\d+))? at p: taken when a comma and at least one digit follow
OptLenEnd(s, p) ==
  IF LitAt(s, p, <<",">>) /\ DigitsEnd(s, p + 1) > p + 1
  THEN DigitsEnd(s, p + 1) ELSE p

NoMatch == [matched |-> FALSE]

\* the pattern tried at position p of s; g1..g4 are the capture groups,
\* an unmatched optional group is the empty text
MatchAt(s, p) ==
  IF ~LitAt(s, p, <<"@", "@", " ", "-">>) THEN NoMatch
  ELSE
    LET a1 == p + 4
        e1 == DigitsEnd(s, a1)
        e2 == OptLenEnd(s, e1)
        a3 == e2 + 2
        e3 == DigitsEnd(s, a3)
        e4 == OptLenEnd(s, e3)
    IN  IF /\ e1 > a1
           /\ LitAt(s, e2, <<" ", "+">>)
           /\ e3 > a3
           /\ LitAt(s, e4, <<" ", "@", "@">>)
        THEN [matched |-> TRUE,
              g1 |-> SubSeq(s, a1, e1 - 1),
              g2 |-> IF e2 > e1 THEN SubSeq(s, e1 + 1, e2 - 1) ELSE <<>>,
              g3 |-> SubSeq(s, a3, e3 - 1),
              g4 |-> IF e4 > e3 THEN SubSeq(s, e3 + 1, e4 - 1) ELSE <<>>]
        ELSE NoMatch

RECURSIVE MatchFrom(_, _)
MatchFrom(s, p) ==
  IF p > Len(s) THEN NoMatch
  ELSE IF MatchAt(s, p).matched THEN MatchAt(s, p)
  ELSE MatchFrom(s, p + 1)

headerMatch(header) == MatchFrom(header, 1)

(***************************************************************************)
(* generatePatch(fileDiff, selectedIndices)                                *)
(***************************************************************************)
\* Preamble without the new-file case
PreambleNeverNew(fd) ==
  <<"-", "-", "-", " ", "a", "/">> \o fd.path \o <<NL>>
    \o <<"+", "+", "+", " ", "b", "/">> \o fd.path \o <<NL>>

\* the file preamble
Preamble(fd) ==
  LET isNewFile ==
        /\ Len(fd.hunks) > 0
        /\ startsWith(fd.hunks[1].header, <<"@", "@", " ", "-", "0", ",", "0">>)
      path == fd.path
  IN  IF isNewFile
      THEN <<"-", "-", "-", " ", "/", "d", "e", "v", "/", "n", "u", "l", "l", NL>>
             \o <<"+", "+", "+", " ", "b", "/">> \o path \o <<NL>>
      ELSE <<"-", "-", "-", " ", "a", "/">> \o path \o <<NL>>
             \o <<"+", "+", "+", " ", "b", "/">> \o path \o <<NL>>

\* LineStep with one branch changed, for the variants below
LineStepVariant(h, l, line, sel, acc, v) ==
  LET isSelected == Key(h, l) \in sel
      asContext == [acc EXCEPT !.newHunkLines = Append(@, <<" ">> \o line.content),
                               !.oldLen = @ + 1,
                               !.newLen = @ + 1]
  IN  IF line.origin = " "
      THEN IF v = "selectedContextCounts" /\ isSelected
           THEN [asContext EXCEPT !.hasSelectionInHunk = TRUE]
           ELSE asContext
      ELSE IF line.origin = "+"
      THEN IF isSelected
           THEN [acc EXCEPT !.newHunkLines = Append(@, <<"+">> \o line.content),
                            !.newLen = @ + 1,
                            !.hasSelectionInHunk = TRUE]
           ELSE IF v = "additionAsContext" THEN asContext ELSE acc
      ELSE IF line.origin = "-"
      THEN IF isSelected
           THEN IF v = "deletionNeverStaged"
                THEN [asContext EXCEPT !.hasSelectionInHunk = TRUE]
                ELSE [acc EXCEPT !.newHunkLines = Append(@, <<"-">> \o line.content),
                                 !.oldLen = @ + 1,
                                 !.hasSelectionInHunk = TRUE]
           ELSE IF v = "omitDeletion" THEN acc
           ELSE IF v = "deletionOldOnly"
           THEN [acc EXCEPT !.newHunkLines = Append(@, <<" ">> \o line.content),
                            !.oldLen = @ + 1]
           ELSE asContext
      ELSE acc

\* LineStep that forgets newLen++ for an unselected deletion
LineStepDeletionOldOnly(h, l, line, sel, acc) ==
  LineStepVariant(h, l, line, sel, acc, "deletionOldOnly")

\* LineStep that omits an unselected deletion
LineStepOmitDeletion(h, l, line, sel, acc) ==
  LineStepVariant(h, l, line, sel, acc, "omitDeletion")

\* LineStep that keeps an unselected addition as context
LineStepAdditionAsContext(h, l, line, sel, acc) ==
  LineStepVariant(h, l, line, sel, acc, "additionAsContext")

\* LineStep that turns a selected deletion into context as well
LineStepDeletionNeverStaged(h, l, line, sel, acc) ==
  LineStepVariant(h, l, line, sel, acc, "deletionNeverStaged")

\* LineStep that takes a selected context line for a selection in the hunk
LineStepSelectedContextCounts(h, l, line, sel, acc) ==
  LineStepVariant(h, l, line, sel, acc, "selectedContextCounts")

\* one iteration of the loop over hunk.lines: line at zero-based index l of
\* the hunk with zero-based index h, acc holding newHunkLines, oldLen,
\* newLen and hasSelectionInHunk
LineStep(h, l, line, sel, acc) ==
  LET isSelected == Key(h, l) \in sel
  IN  IF line.origin = " "
      THEN [acc EXCEPT !.newHunkLines = Append(@, <<" ">> \o line.content),
                       !.oldLen = @ + 1,
                       !.newLen = @ + 1]
      ELSE IF line.origin = "+"
      THEN IF isSelected
           THEN [acc EXCEPT !.newHunkLines = Append(@, <<"+">> \o line.content),
                            !.newLen = @ + 1,
                            !.hasSelectionInHunk = TRUE]
           ELSE acc
      ELSE IF line.origin = "-"
      THEN IF isSelected
           THEN [acc EXCEPT !.newHunkLines = Append(@, <<"-">> \o line.content),
                            !.oldLen = @ + 1,
                            !.hasSelectionInHunk = TRUE]
           ELSE [acc EXCEPT !.newHunkLines = Append(@, <<" ">> \o line.content),
                            !.oldLen = @ + 1,
                            !.newLen = @ + 1]
      ELSE acc

\* the loop over hunk.lines, from zero-based index l on
RECURSIVE WalkLines(_, _, _, _, _)
WalkLines(h, lines, l, sel, acc) ==
  IF l >= Len(lines) THEN acc
  ELSE WalkLines(h, lines, l + 1, sel, LineStep(h, l, lines[l + 1], sel, acc))

\* NewHeader with the two lengths written in each other's place
NewHeaderSwapped(oldStartLine, oldLen, newStartLine, newLen) ==
  <<"@", "@", " ", "-">> \o NumToStr(oldStartLine)
    \o (IF newLen # 1 THEN <<",">> \o NumToStr(newLen) ELSE <<>>)
    \o <<" ", "+">> \o NumToStr(newStartLine)
    \o (IF oldLen # 1 THEN <<",">> \o NumToStr(oldLen) ELSE <<>>)
    \o <<" ", "@", "@">>

\* NewHeader that writes a length only when it is greater than 1
NewHeaderOmitZero(oldStartLine, oldLen, newStartLine, newLen) ==
  <<"@", "@", " ", "-">> \o NumToStr(oldStartLine)
    \o (IF oldLen > 1 THEN <<",">> \o NumToStr(oldLen) ELSE <<>>)
    \o <<" ", "+">> \o NumToStr(newStartLine)
    \o (IF newLen > 1 THEN <<",">> \o NumToStr(newLen) ELSE <<>>)
    \o <<" ", "@", "@">>

\* the reconstructed header, without its line end
NewHeader(oldStartLine, oldLen, newStartLine, newLen) ==
  <<"@", "@", " ", "-">> \o NumToStr(oldStartLine)
    \o (IF oldLen # 1 THEN <<",">> \o NumToStr(oldLen) ELSE <<>>)
    \o <<" ", "+">> \o NumToStr(newStartLine)
    \o (IF newLen # 1 THEN <<",">> \o NumToStr(newLen) ELSE <<>>)
    \o <<" ", "@", "@">>

\* HunkText deciding emission by emit(r) instead of r.hasSelectionInHunk
HunkTextVariant(fd, h, sel, emit(_)) ==
  LET hunk == fd.hunks[h + 1]
      m == headerMatch(hunk.header)
  IN  IF ~m.matched THEN <<>>
      ELSE
        LET r == WalkLines(h, hunk.lines, 0, sel,
                           [newHunkLines |-> <<>>, oldLen |-> 0, newLen |-> 0,
                            hasSelectionInHunk |-> FALSE])
        IN  IF emit(r)
            THEN NewHeader(parseInt(m.g1), r.oldLen, parseInt(m.g3), r.newLen)
                   \o <<NL>> \o join(r.newHunkLines, <<NL>>) \o <<NL>>
            ELSE <<>>

\* HunkText that emits every hunk whose header parses
HunkTextAlways(fd, h, sel) ==
  LET emit(r) == TRUE IN HunkTextVariant(fd, h, sel, emit)

\* HunkText that emits a hunk only when its two lengths differ
HunkTextNetChange(fd, h, sel) ==
  LET emit(r) == r.oldLen # r.newLen IN HunkTextVariant(fd, h, sel, emit)

\* what the body of the loop over fileDiff.hunks appends to patch for the
\* hunk with zero-based index h
HunkText(fd, h, sel) ==
  LET hunk == fd.hunks[h + 1]
      m == headerMatch(hunk.header)
  IN  IF ~m.matched THEN <<>>
      ELSE
        LET oldStartLine == parseInt(m.g1)
            newStartLine == parseInt(m.g3)
            r == WalkLines(h, hunk.lines, 0, sel,
                           [newHunkLines |-> <<>>, oldLen |-> 0, newLen |-> 0,
                            hasSelectionInHunk |-> FALSE])
        IN  IF r.hasSelectionInHunk
            THEN NewHeader(oldStartLine, r.oldLen, newStartLine, r.newLen)
                   \o <<NL>> \o join(r.newHunkLines, <<NL>>) \o <<NL>>
            ELSE <<>>

\* HunksFrom that leaves the loop (break) at a header that does not parse
RECURSIVE HunksFromBreak(_, _, _)
HunksFromBreak(fd, h, sel) ==
  IF h >= Len(fd.hunks) THEN <<>>
  ELSE IF ~headerMatch(fd.hunks[h + 1].header).matched THEN <<>>
  ELSE HunkText(fd, h, sel) \o HunksFromBreak(fd, h + 1, sel)

\* HunksFrom that puts each hunk before the ones that came earlier
RECURSIVE HunksFromReversed(_, _, _)
HunksFromReversed(fd, h, sel) ==
  IF h >= Len(fd.hunks) THEN <<>>
  ELSE HunksFromReversed(fd, h + 1, sel) \o HunkText(fd, h, sel)

RECURSIVE HunksFrom(_, _, _)
HunksFrom(fd, h, sel) ==
  IF h >= Len(fd.hunks) THEN <<>>
  ELSE HunkText(fd, h, sel) \o HunksFrom(fd, h + 1, sel)

generatePatch(fd, sel) == Preamble(fd) \o HunksFrom(fd, 0, sel)

(***************************************************************************)
(* SplitViewRows: the loop that builds the aligned rows of one hunk.       *)
(***************************************************************************)
\* left / right of a row that has no line on that side (null)
Null == [content |-> <<>>, origin |-> "null"]

\* leftIndex / rightIndex of a row that has none (undefined)
Undefined == -1

Max(a, b) == IF a >= b THEN a ELSE b

\* the inner while loops: first zero-based index from j on whose line does
\* not have origin o (or the number of lines)
RECURSIVE RunEnd(_, _, _)
RunEnd(lines, j, o) ==
  IF j < Len(lines) /\ lines[j + 1].origin = o THEN RunEnd(lines, j + 1, o)
  ELSE j

\* SplitViewIter with the deletion branch changed: maxLen computed by
\* len(d, a), i left at next(i0, j)
SplitViewIterVariant(lines, i0, len(_, _), next(_, _)) ==
  LET line == lines[i0 + 1]
  IN  IF line.origin = " "
      THEN [rows |-> <<[left |-> line, right |-> line,
                        leftIndex |-> i0, rightIndex |-> i0]>>,
            i |-> i0 + 1]
      ELSE IF line.origin = "-"
      THEN LET jd == RunEnd(lines, i0 + 1, "-")
               ja == RunEnd(lines, jd, "+")
               maxLen == len(jd - i0, ja - jd)
           IN  [rows |-> [k \in 1..maxLen |->
                            [left |-> IF k <= jd - i0 THEN lines[i0 + k] ELSE Null,
                             right |-> IF k <= ja - jd THEN lines[jd + k] ELSE Null,
                             leftIndex |-> IF k <= jd - i0 THEN i0 + k - 1 ELSE Undefined,
                             rightIndex |-> IF k <= ja - jd THEN jd + k - 1 ELSE Undefined]],
                i |-> next(i0, ja)]
      ELSE IF line.origin = "+"
      THEN [rows |-> <<[left |-> Null, right |-> line,
                        leftIndex |-> Undefined, rightIndex |-> i0]>>,
            i |-> i0 + 1]
      ELSE [rows |-> <<>>, i |-> i0]

\* SplitViewIter pairing only as many rows as the shorter run has
SplitViewIterMin(lines, i0) ==
  LET len(d, a) == IF d <= a THEN d ELSE a
      next(i1, j) == j
  IN  SplitViewIterVariant(lines, i0, len, next)

\* SplitViewIter advancing by one line after a run instead of past it
SplitViewIterStepOne(lines, i0) ==
  LET len(d, a) == Max(d, a)
      next(i1, j) == i1 + 1
  IN  SplitViewIterVariant(lines, i0, len, next)

\* SplitViewIter that gives a deletion run and its additions one row per line
SplitViewIterSum(lines, i0) ==
  LET len(d, a) == d + a
      next(i1, j) == j
  IN  SplitViewIterVariant(lines, i0, len, next)

\* SplitViewIter that looks for the additions of a deletion run past the
\* context lines that follow the run
SplitViewIterAcrossContext(lines, i0) ==
  IF lines[i0 + 1].origin # "-"
  THEN LET len(d, a) == Max(d, a)
           next(i1, j) == j
       IN  SplitViewIterVariant(lines, i0, len, next)
  ELSE LET jd == RunEnd(lines, i0 + 1, "-")
           jc == RunEnd(lines, jd, " ")
           ja == RunEnd(lines, jc, "+")
           maxLen == Max(jd - i0, ja - jc)
       IN  [rows |-> [k \in 1..maxLen |->
                        [left |-> IF k <= jd - i0 THEN lines[i0 + k] ELSE Null,
                         right |-> IF k <= ja - jc THEN lines[jc + k] ELSE Null,
                         leftIndex |-> IF k <= jd - i0 THEN i0 + k - 1 ELSE Undefined,
                         rightIndex |-> IF k <= ja - jc THEN jc + k - 1 ELSE Undefined]],
            i |-> ja]

\* SplitViewIter that puts an addition which follows no deletion beside the
\* deletion right after it
SplitViewIterAdditionFirst(lines, i0) ==
  IF /\ lines[i0 + 1].origin = "+"
     /\ i0 + 2 <= Len(lines)
     /\ lines[i0 + 2].origin = "-"
  THEN [rows |-> <<[left |-> lines[i0 + 2], right |-> lines[i0 + 1],
                    leftIndex |-> i0 + 1, rightIndex |-> i0]>>,
        i |-> i0 + 2]
  ELSE LET len(d, a) == Max(d, a)
           next(i1, j) == j
       IN  SplitViewIterVariant(lines, i0, len, next)

\* SplitViewIter that numbers the additions of a block from the start of
\* the block instead of from their own place in the hunk
SplitViewIterRelativeIndex(lines, i0) ==
  LET len(d, a) == Max(d, a)
      next(i1, j) == j
      it == SplitViewIterVariant(lines, i0, len, next)
  IN  IF lines[i0 + 1].origin # "-" THEN it
      ELSE [it EXCEPT !.rows =
              [k \in 1..Len(it.rows) |->
                 IF it.rows[k].rightIndex = Undefined THEN it.rows[k]
                 ELSE [it.rows[k] EXCEPT !.rightIndex = i0 + k - 1]]]

\* SplitViewIter without the branch for an addition that follows no deletion
SplitViewIterNoPureAddition(lines, i0) ==
  IF lines[i0 + 1].origin = "+" THEN [rows |-> <<>>, i |-> i0]
  ELSE LET len(d, a) == Max(d, a)
           next(i1, j) == j
       IN  SplitViewIterVariant(lines, i0, len, next)

\* one iteration of the outer while loop at zero-based index i0: the rows it
\* pushes and the value it leaves in i
SplitViewIter(lines, i0) ==
  LET line == lines[i0 + 1]
  IN  IF line.origin = " "
      THEN [rows |-> <<[left |-> line, right |-> line,
                        leftIndex |-> i0, rightIndex |-> i0]>>,
            i |-> i0 + 1]
      ELSE IF line.origin = "-"
      THEN LET jd == RunEnd(lines, i0 + 1, "-")
               ja == RunEnd(lines, jd, "+")
               deletions == [k \in 1..(jd - i0) |-> lines[i0 + k]]
               delIndices == [k \in 1..(jd - i0) |-> i0 + k - 1]
               additions == [k \in 1..(ja - jd) |-> lines[jd + k]]
               addIndices == [k \in 1..(ja - jd) |-> jd + k - 1]
               maxLen == Max(Len(deletions), Len(additions))
           IN  [rows |-> [k \in 1..maxLen |->
                            [left |-> IF k <= Len(deletions)
                                      THEN deletions[k] ELSE Null,
                             right |-> IF k <= Len(additions)
                                       THEN additions[k] ELSE Null,
                             leftIndex |-> IF k <= Len(deletions)
                                           THEN delIndices[k] ELSE Undefined,
                             rightIndex |-> IF k <= Len(additions)
                                            THEN addIndices[k] ELSE Undefined]],
                i |-> ja]
      ELSE IF line.origin = "+"
      THEN [rows |-> <<[left |-> Null, right |-> line,
                        leftIndex |-> Undefined, rightIndex |-> i0]>>,
            i |-> i0 + 1]
      ELSE [rows |-> <<>>, i |-> i0]

(***************************************************************************)
(* The explored inputs.                                                    *)
(***************************************************************************)
\* DiffLine.origin is a string; "=" stands for an origin that is none of
\* context, addition and deletion
Origins == {" ", "+", "-", "="}

PatchOrigins == Origins

\* hunk headers as the backend may deliver them: with both lengths, of a new
\* file, without lengths and with trailing text, and two that do not parse
Headers ==
  << <<"@", "@", " ", "-", "1", "0", ",", "3", " ", "+", "1", "0", ",", "4", " ", "@", "@">>,
     <<"@", "@", " ", "-", "0", ",", "0", " ", "+", "1", ",", "2", " ", "@", "@">>,
     <<"@", "@", " ", "-", "7", " ", "+", "8", " ", "@", "@", " ", "f", "n">>,
     <<"@", "@", " ", "-", "0", ",", "0">>,
     <<"@", "@", " ", "-", "1", ",", "x", " ", "+", "1", " ", "@", "@">> >>

\* header of the hunk with zero-based index h under header scheme s
HeaderFor(s, h) == Headers[((s + h) % Len(Headers)) + 1]

\* line contents: plain text, an empty line, text that looks like diff
\* syntax, and a line equal to an earlier one
Contents ==
  << <<"a">>,
     <<>>,
     <<"-", "-", "b">>,
     <<"a">>,
     <<"@", "@", " ", "-", "1", " ", "+", "1", " ", "@", "@">>,
     <<"+", "c">>,
     <<" ">> >>

PathFor(s) == IF s % 2 = 0 THEN <<"f">> ELSE <<"d", "/", "g">>

\* content of the n-th line (zero-based) of the whole diff
ContentFor(n) == Contents[(n % Len(Contents)) + 1]

\* the sequences of 1 to n origins of os
OriginSeqs(os, n) == UNION {[1..k -> os] : k \in 1..n}

\* the sequences of at most nh hunks, each a non-empty sequence of origins
\* of os, with at most nl lines altogether
RECURSIVE Shapes(_, _, _)
Shapes(os, nh, nl) ==
  IF nh = 0 THEN {<<>>}
  ELSE {<<>>} \cup
       UNION {{<<s>> \o rest : rest \in Shapes(os, nh - 1, nl - Len(s))} :
              s \in OriginSeqs(os, nl)}

RECURSIVE LinesBefore(_, _)
LinesBefore(shape, h) ==
  IF h <= 1 THEN 0 ELSE LinesBefore(shape, h - 1) + Len(shape[h - 1])

MkDiff(shape, s) ==
  [path |-> PathFor(s),
   hunks |-> [h \in 1..Len(shape) |->
                [header |-> HeaderFor(s, h - 1),
                 lines |-> [l \in 1..Len(shape[h]) |->
                              [content |-> ContentFor(LinesBefore(shape, h) + l - 1),
                               origin |-> shape[h][l]]]]]]

\* the hunk of the spec's concrete scenario
ScenarioDiff ==
  [path |-> <<"f">>,
   hunks |-> << [header |-> Headers[1],
                 lines |-> << [content |-> <<"a">>, origin |-> " "],
                              [content |-> <<"b">>, origin |-> "-"],
                              [content |-> <<"x">>, origin |-> "+"],
                              [content |-> <<"y">>, origin |-> "+"],
                              [content |-> <<"c">>, origin |-> " "] >>] >>]

\* a diff of two hunks whose headers agree with their lines and with each
\* other: the second new start is the old start plus the line added before
ConsistentDiff ==
  [path |-> <<"f">>,
   hunks |-> << [header |-> <<"@", "@", " ", "-", "1", " ", "+", "1", ",", "2", " ", "@", "@">>,
                 lines |-> << [content |-> <<"a">>, origin |-> " "],
                              [content |-> <<"x">>, origin |-> "+"] >>],
                [header |-> <<"@", "@", " ", "-", "5", " ", "+", "6", ",", "2", " ", "@", "@">>,
                 lines |-> << [content |-> <<"c">>, origin |-> " "],
                              [content |-> <<"y">>, origin |-> "+"] >>] >>]

\* diffs with a hunk that has no line at all
EmptyHunkShapes == { << <<>> >>, << <<>>, <<"+">> >>, << <<"-">>, <<>> >> }

PatchDiffs ==
  {MkDiff(shape, s) :
     shape \in Shapes(PatchOrigins, MaxHunks, MaxLines) \cup EmptyHunkShapes,
     s \in 0..(Len(Headers) - 1)}
    \cup {ScenarioDiff, ConsistentDiff}

SplitDiffs ==
  {MkDiff(shape, s) :
     shape \in (Shapes(Origins, 1, MaxSplitLines) \ {<<>>}) \cup {<< <<>> >>},
     s \in {0, 1}}

IsChange(line) == line.origin = "+" \/ line.origin = "-"

\* the keys of the addition and deletion lines of fd
ChangeKeys(fd) ==
  {Key(h - 1, l - 1) : <<h, l>> \in
     {hl \in (1..Len(fd.hunks)) \X (1..(MaxLines + MaxSplitLines)) :
        /\ hl[2] <= Len(fd.hunks[hl[1]].lines)
        /\ IsChange(fd.hunks[hl[1]].lines[hl[2]])}}

\* keys that name no addition or deletion of fd: its other lines, a line
\* past the end of each hunk, a hunk past the last one, and a string that
\* is no key at all
OtherKeys(fd) ==
  {Key(h - 1, l - 1) : <<h, l>> \in
     {hl \in (1..Len(fd.hunks)) \X (1..(MaxLines + MaxSplitLines + 1)) :
        /\ hl[2] <= Len(fd.hunks[hl[1]].lines) + 1
        /\ (hl[2] <= Len(fd.hunks[hl[1]].lines)
              => ~IsChange(fd.hunks[hl[1]].lines[hl[2]]))}}
    \cup {Key(Len(fd.hunks), 0), <<"x">>}

Selections(fd) ==
  {S \cup T : S \in SUBSET ChangeKeys(fd), T \in {{}, OtherKeys(fd)}}

(***************************************************************************)
(* The patch synthesizer applied to a diff and a selection.                *)
(***************************************************************************)
Init ==
  /\ fileDiff \in PatchDiffs
  /\ selectedIndices \in Selections(fileDiff)
  /\ patch = <<>>
  /\ hunkIndex = 0
  /\ i = 0
  /\ rows = <<>>
  /\ pc = "idle"
  /\ ShellIdle
  /\ RepoOpen

GeneratePatch ==
  /\ pc = "idle"
  /\ patch' = generatePatch(fileDiff, selectedIndices)
  /\ pc' = "patched"
  /\ UNCHANGED <<fileDiff, selectedIndices, hunkIndex, i, rows>>
  /\ UNCHANGED shellVars
  /\ UNCHANGED repoVars

Next == GeneratePatch

Spec == Init /\ [][Next]_vars

(***************************************************************************)
(* The split view rendering one hunk of a diff.                            *)
(***************************************************************************)
InitSplit ==
  /\ fileDiff \in SplitDiffs
  /\ selectedIndices = {}
  /\ patch = <<>>
  /\ hunkIndex = 0
  /\ i = 0
  /\ rows = <<>>
  /\ pc = "idle"
  /\ ShellIdle
  /\ RepoOpen

\* <SplitViewRows hunk={hunk} hunkIndex={hunkIndex} .../> starts rendering
SplitViewStart(h) ==
  /\ pc = "idle"
  /\ hunkIndex' = h
  /\ i' = 0
  /\ rows' = <<>>
  /\ pc' = "aligning"
  /\ UNCHANGED <<fileDiff, selectedIndices, patch>>
  /\ UNCHANGED shellVars
  /\ UNCHANGED repoVars

\* one iteration of while (i < hunk.lines.length)
SplitViewLoop ==
  /\ pc = "aligning"
  /\ i < Len(fileDiff.hunks[hunkIndex + 1].lines)
  /\ LET it == SplitViewIter(fileDiff.hunks[hunkIndex + 1].lines, i)
     IN  /\ rows' = rows \o it.rows
         /\ i' = it.i
  /\ UNCHANGED <<fileDiff, selectedIndices, patch, hunkIndex, pc>>
  /\ UNCHANGED shellVars
  /\ UNCHANGED repoVars

\* the loop condition fails: rows is what gets rendered
SplitViewDone ==
  /\ pc = "aligning"
  /\ i >= Len(fileDiff.hunks[hunkIndex + 1].lines)
  /\ pc' = "aligned"
  /\ UNCHANGED <<fileDiff, selectedIndices, patch, hunkIndex, i, rows>>
  /\ UNCHANGED shellVars
  /\ UNCHANGED repoVars

NextSplit ==
  \/ \E h \in 0..(Len(fileDiff.hunks) - 1) : SplitViewStart(h)
  \/ SplitViewLoop
  \/ SplitViewDone

SpecSplit == InitSplit /\ [][NextSplit]_vars

\* rendering is synchronous: once started, the loop keeps running
SpecSplitFair == SpecSplit /\ WF_vars(NextSplit)

(***************************************************************************)
(* The DiffView component and the store around one stage action.           *)
(*                                                                         *)
(* A store update, the render it causes and the effects of that render     *)
(* are one step: the store subscription re-renders synchronously and the   *)
(* effects of a synchronous render are flushed before the next event.      *)
(***************************************************************************)
\* the files of the repository's file list
Files == {PathFor(0), PathFor(1)}

\* the diffs the backend may answer get_file_diff with: the scenario diff,
\* a new file, a hunk whose header does not parse, a parsing hunk followed
\* by one that does not, a line of an origin other than ' ', '+', '-', and
\* a diff without hunks
ShellDiffs ==
  { ScenarioDiff,
    MkDiff(<< <<"+", "-">> >>, 1),
    MkDiff(<< <<"+">> >>, 3),
    MkDiff(<< <<"-", " ">>, <<"+">> >>, 2),
    MkDiff(<< <<"=", "+">> >>, 0),
    MkDiff(<<>>, 1) }

DiffsOf(file) == {d \in ShellDiffs : d.path = file}

\* identity of the object in selectedFileDiff: 0 for null, else the number
\* of the delivery that put it there
DiffId == IF selectedFileDiff = NoDiff THEN 0 ELSE delivered

\* <DiffView> is rendered: {selectedFile && (<DiffView .../>)}
Mounted == selectedFile # NoFile

\* DiffView renders its rows: if (!diff) return null
Shown == Mounted /\ selectedFileDiff # NoDiff

\* the whole of SplitViewRows' loop
RECURSIVE SplitRowsFrom(_, _, _)
SplitRowsFrom(lines, i0, acc) ==
  IF i0 >= Len(lines) THEN acc
  ELSE LET it == SplitViewIter(lines, i0)
       IN  SplitRowsFrom(lines, it.i, acc \o it.rows)

WellFormedLines(lines) == \A l \in 1..Len(lines) : lines[l].origin \in {" ", "+", "-"}

\* the render returns: in split view SplitViewRows' loop ends for every hunk
Responsive ==
  (Shown /\ viewMode = "split") =>
     \A h \in 1..Len(selectedFileDiff.hunks) :
        WellFormedLines(selectedFileDiff.hunks[h].lines)

\* toggleLine
toggleLine(sel, h, l) ==
  LET key == Key(h, l)
  IN  IF key \in sel THEN sel \ {key} ELSE sel \cup {key}

toggleHunkVariant(diff, sel, h, shouldSelect, counts(_)) ==
  LET lines == diff.hunks[h + 1].lines
      keys == {Key(h, l - 1) : l \in {n \in 1..Len(lines) : counts(lines[n])}}
  IN  IF shouldSelect THEN sel \cup keys ELSE sel \ keys

\* toggleHunk without the test of the line's origin
toggleHunkEveryLine(diff, sel, h, shouldSelect) ==
  LET counts(line) == TRUE
  IN  toggleHunkVariant(diff, sel, h, shouldSelect, counts)

\* toggleHunk that starts from an empty set instead of a copy of the selection
toggleHunkReplace(diff, sel, h, shouldSelect) ==
  toggleHunkVariant(diff, {}, h, shouldSelect, IsChange)

\* toggleHunk
toggleHunk(diff, sel, h, shouldSelect) ==
  toggleHunkVariant(diff, sel, h, shouldSelect, IsChange)

\* the effect that resets the selection only when the diff becomes null
SelectionEffectOnNull(prevId, nextId, sel) ==
  IF nextId = 0 THEN {} ELSE sel

\* useEffect(() => { setSelectedIndices(new Set()) }, [diff]): the
\* dependency is compared by identity
SelectionEffect(prevId, nextId, sel) ==
  IF prevId # nextId THEN {} ELSE sel

\* stageChunk asking for the diff of the file that was staged
RefetchFileStaged(current, stagedFile) == stagedFile

\* const selectedFile = get().selectedFile; the file stageChunk asks the
\* diff of, NoFile if it asks for none
RefetchFile(current, stagedFile) == current

\* the selection after a toggle, with the diff each key was toggled on
Toggled(sel) ==
  /\ selectedIndices' = sel
  /\ toggledAt' = [key \in sel |->
                     IF key \in selectedIndices THEN toggledAt[key] ELSE DiffId]

\* set({ selectedFile: file, selectedFileDiff: diff }) and the render after
\* it: a DiffView that stays mounted runs its effect, one that is mounted
\* anew starts from its initial state
StoreSet(file, diff) ==
  LET nextId == IF diff = NoDiff THEN 0 ELSE delivered + 1
      sel == IF Mounted /\ file # NoFile
             THEN SelectionEffect(DiffId, nextId, selectedIndices)
             ELSE {}
  IN  /\ selectedFile' = file
      /\ selectedFileDiff' = diff
      /\ delivered' = IF diff = NoDiff THEN delivered ELSE delivered + 1
      /\ selectedIndices' = sel
      /\ toggledAt' = [key \in sel |-> toggledAt[key]]
      /\ viewMode' = IF Mounted /\ file # NoFile THEN viewMode ELSE "unified"

\* isStaging of the DiffView mounted after set({ selectedFile: file, ... })
StagingAfter(file) == IF Mounted /\ file # NoFile THEN isStaging ELSE FALSE

InitShell ==
  /\ fileDiff = NoDiff
  /\ selectedIndices = {}
  /\ patch = <<>>
  /\ hunkIndex = 0
  /\ i = 0
  /\ rows = <<>>
  /\ pc = "idle"
  /\ ShellIdle
  /\ RepoOpen

\* a click on a file of the file list: selectFile(repoPath, file) up to its
\* await of get_file_diff
SelectFile(file) ==
  /\ Responsive
  /\ file \notin pending
  /\ pending' = pending \cup {file}
  /\ UNCHANGED <<fileDiff, selectedIndices, patch, splitVars, selectedFile,
                 selectedFileDiff, delivered, toggledAt, viewMode, isStaging,
                 stage, staged>>
  /\ UNCHANGED repoVars

\* get_file_diff answers a selectFile of the user
DiffLoaded(file, diff) ==
  /\ Responsive
  /\ file \in pending
  /\ delivered < MaxDiffs
  /\ pending' = pending \ {file}
  /\ StoreSet(file, diff)
  /\ isStaging' = StagingAfter(file)
  /\ UNCHANGED <<fileDiff, patch, splitVars, stage, staged>>
  /\ UNCHANGED repoVars

\* get_file_diff fails for a selectFile of the user
DiffFailed(file) ==
  /\ Responsive
  /\ file \in pending
  /\ pending' = pending \ {file}
  /\ StoreSet(file, NoDiff)
  /\ isStaging' = StagingAfter(file)
  /\ UNCHANGED <<fileDiff, patch, splitVars, stage, staged>>
  /\ UNCHANGED repoVars

\* selectFile(repoPath, null): the close button of DiffView, a change of
\* RepoView's view mode
CloseFile ==
  /\ Responsive
  /\ Mounted
  /\ StoreSet(NoFile, NoDiff)
  /\ isStaging' = StagingAfter(NoFile)
  /\ staged' = [staged EXCEPT !.mounted = FALSE]
  /\ UNCHANGED <<fileDiff, patch, splitVars, stage, pending>>
  /\ UNCHANGED repoVars

\* the two view buttons
SetViewMode(mode) ==
  /\ Responsive
  /\ Shown
  /\ viewMode # mode
  /\ viewMode' = mode
  /\ UNCHANGED <<fileDiff, selectedIndices, patch, splitVars, selectedFile,
                 selectedFileDiff, delivered, toggledAt, isStaging, stage,
                 staged, pending>>
  /\ UNCHANGED repoVars

\* a click on a row of the unified view
ClickUnified(h, l) ==
  /\ Responsive
  /\ Shown
  /\ viewMode = "unified"
  /\ IsChange(selectedFileDiff.hunks[h + 1].lines[l + 1])
  /\ Toggled(toggleLine(selectedIndices, h, l))
  /\ UNCHANGED <<fileDiff, patch, splitVars, selectedFile, selectedFileDiff,
                 delivered, viewMode, isStaging, stage, staged, pending>>
  /\ UNCHANGED repoVars

\* a click on the left or the right column of a row of the split view
ClickSplit(h, r, side) ==
  /\ Responsive
  /\ Shown
  /\ viewMode = "split"
  /\ r <= Len(SplitRowsFrom(selectedFileDiff.hunks[h + 1].lines, 0, <<>>))
  /\ LET row == SplitRowsFrom(selectedFileDiff.hunks[h + 1].lines, 0, <<>>)[r]
     IN  IF side = "left"
         THEN /\ row.leftIndex # Undefined
              /\ row.left.origin = "-"
              /\ Toggled(toggleLine(selectedIndices, h, row.leftIndex))
         ELSE /\ row.rightIndex # Undefined
              /\ row.right.origin = "+"
              /\ Toggled(toggleLine(selectedIndices, h, row.rightIndex))
  /\ UNCHANGED <<fileDiff, patch, splitVars, selectedFile, selectedFileDiff,
                 delivered, viewMode, isStaging, stage, staged, pending>>
  /\ UNCHANGED repoVars

\* the select-all and deselect-all buttons of a hunk
ClickHunk(h, shouldSelect) ==
  /\ Responsive
  /\ Shown
  /\ Toggled(toggleHunk(selectedFileDiff, selectedIndices, h, shouldSelect))
  /\ selectedIndices' # selectedIndices
  /\ UNCHANGED <<fileDiff, patch, splitVars, selectedFile, selectedFileDiff,
                 delivered, viewMode, isStaging, stage, staged, pending>>
  /\ UNCHANGED repoVars

\* StageClick without setIsStaging(true)
StageClickNoFlag ==
  /\ Responsive
  /\ Shown
  /\ selectedIndices # {}
  /\ ~isStaging
  /\ stage = "idle"
  /\ isStaging' = isStaging
  /\ fileDiff' = selectedFileDiff
  /\ patch' = generatePatch(selectedFileDiff, selectedIndices)
  /\ staged' = [file |-> selectedFile, diffId |-> DiffId,
                selection |-> selectedIndices, applied |-> FALSE,
                fetched |-> NoFile, mounted |-> TRUE]
  /\ stage' = "applying"
  /\ UNCHANGED <<selectedIndices, splitVars, selectedFile, selectedFileDiff,
                 delivered, toggledAt, viewMode, pending>>
  /\ UNCHANGED repoVars

\* the stage button: handleStageSelected up to stageChunk's await of
\* apply_patch.  One handler runs at a time.
StageClick ==
  /\ Responsive
  /\ Shown
  /\ selectedIndices # {}
  /\ ~isStaging
  /\ stage = "idle"
  /\ isStaging' = TRUE
  /\ fileDiff' = selectedFileDiff
  /\ patch' = generatePatch(selectedFileDiff, selectedIndices)
  /\ staged' = [file |-> selectedFile, diffId |-> DiffId,
                selection |-> selectedIndices, applied |-> FALSE,
                fetched |-> NoFile, mounted |-> TRUE]
  /\ stage' = "applying"
  /\ UNCHANGED <<selectedIndices, splitVars, selectedFile, selectedFileDiff,
                 delivered, toggledAt, viewMode, pending>>
  /\ UNCHANGED repoVars

\* handleStageSelected's finally, the handler's locals going out of scope
StageEnds ==
  /\ stage' = "idle"
  /\ isStaging' = FALSE
  /\ fileDiff' = NoDiff
  /\ patch' = <<>>

\* apply_patch succeeds: stageChunk goes on to refreshStatus
ApplyOk ==
  /\ Responsive
  /\ stage = "applying"
  /\ stage' = "refreshing"
  /\ staged' = [staged EXCEPT !.applied = TRUE]
  /\ UNCHANGED <<fileDiff, selectedIndices, patch, splitVars, selectedFile,
                 selectedFileDiff, delivered, toggledAt, viewMode, isStaging,
                 pending>>
  /\ UNCHANGED repoVars

\* apply_patch fails: stageChunk throws, the handler logs the error
ApplyFail ==
  /\ Responsive
  /\ stage = "applying"
  /\ StageEnds
  /\ staged' = [staged EXCEPT !.selection = {}, !.diffId = 0, !.mounted = FALSE]
  /\ UNCHANGED <<selectedIndices, splitVars, selectedFile, selectedFileDiff,
                 delivered, toggledAt, viewMode, pending>>
  /\ UNCHANGED repoVars

\* refreshStatus is over (it catches its own errors): stageChunk reads the
\* selected file and, if there is one, calls selectFile for it
RefreshDone ==
  /\ Responsive
  /\ stage = "refreshing"
  /\ LET file == RefetchFile(selectedFile, staged.file)
     IN  IF file # NoFile
         THEN /\ stage' = "fetching"
              /\ staged' = [staged EXCEPT !.fetched = file]
              /\ UNCHANGED <<fileDiff, patch, isStaging>>
         ELSE /\ StageEnds
              /\ staged' = [staged EXCEPT !.selection = {}, !.diffId = 0, !.mounted = FALSE]
  /\ UNCHANGED <<selectedIndices, splitVars, selectedFile, selectedFileDiff,
                 delivered, toggledAt, viewMode, pending>>
  /\ UNCHANGED repoVars

\* get_file_diff answers stageChunk's selectFile; the stage action is over
StageDiffLoaded(diff) ==
  /\ Responsive
  /\ stage = "fetching"
  /\ diff \in DiffsOf(staged.fetched)
  /\ delivered < MaxDiffs
  /\ StoreSet(staged.fetched, diff)
  /\ StageEnds
  /\ staged' = [staged EXCEPT !.selection = {}, !.diffId = 0, !.mounted = FALSE]
  /\ UNCHANGED <<splitVars, pending>>
  /\ UNCHANGED repoVars

\* get_file_diff fails for stageChunk's selectFile, which catches the error
StageDiffFailed ==
  /\ Responsive
  /\ stage = "fetching"
  /\ StoreSet(staged.fetched, NoDiff)
  /\ StageEnds
  /\ staged' = [staged EXCEPT !.selection = {}, !.diffId = 0, !.mounted = FALSE]
  /\ UNCHANGED <<splitVars, pending>>
  /\ UNCHANGED repoVars

NextShell ==
  \/ \E file \in Files : SelectFile(file)
  \/ \E file \in Files : \E diff \in DiffsOf(file) : DiffLoaded(file, diff)
  \/ \E file \in Files : DiffFailed(file)
  \/ CloseFile
  \/ \E mode \in {"unified", "split"} : SetViewMode(mode)
  \/ \E h \in 0..(Len(selectedFileDiff.hunks) - 1) :
       \E l \in 0..(Len(selectedFileDiff.hunks[h + 1].lines) - 1) :
          ClickUnified(h, l)
  \/ \E h \in 0..(Len(selectedFileDiff.hunks) - 1) :
       \E r \in 1..Len(selectedFileDiff.hunks[h + 1].lines) :
          \E side \in {"left", "right"} : ClickSplit(h, r, side)
  \/ \E h \in 0..(Len(selectedFileDiff.hunks) - 1) :
       \E shouldSelect \in BOOLEAN : ClickHunk(h, shouldSelect)
  \/ StageClick
  \/ ApplyOk
  \/ ApplyFail
  \/ RefreshDone
  \/ \E diff \in ShellDiffs : StageDiffLoaded(diff)
  \/ StageDiffFailed

SpecShell == InitShell /\ [][NextShell]_vars

\* the backend answers every call of a stage action, and the continuation of
\* the handler runs when it does
SpecShellFair ==
  /\ SpecShell
  /\ WF_vars(ApplyOk \/ ApplyFail)
  /\ WF_vars(RefreshDone)
  /\ WF_vars((\E diff \in ShellDiffs : StageDiffLoaded(diff)) \/ StageDiffFailed)

(***************************************************************************)
(* The store when the selected repository changes while calls are in       *)
(* flight.  RepoView, and DiffView in it, get repoPath = selectedRepoPath. *)
(***************************************************************************)
\* the file of the file list that is followed across repositories
RepoFiles == {PathFor(0)}

InitRepo ==
  /\ fileDiff = NoDiff
  /\ selectedIndices = {}
  /\ patch = <<>>
  /\ hunkIndex = 0
  /\ i = 0
  /\ rows = <<>>
  /\ pc = "idle"
  /\ ShellIdle
  /\ RepoIdle

\* selectRepo(path): a click on another repository of the list
SelectRepo(repo) ==
  /\ repo # selectedRepoPath
  /\ selectedRepoPath' = repo
  /\ StoreSet(NoFile, NoDiff)
  /\ diffRepo' = NoRepo
  /\ isStaging' = StagingAfter(NoFile)
  /\ staged' = [staged EXCEPT !.mounted = FALSE]
  /\ UNCHANGED <<fileDiff, patch, splitVars, stage, pending, requests, applyCall>>

\* selectFile(repoPath, file) up to its await, repoPath being RepoView's prop
RepoSelectFile(file) ==
  /\ selectedRepoPath # NoRepo
  /\ [repo |-> selectedRepoPath, file |-> file] \notin requests
  /\ requests' = requests \cup {[repo |-> selectedRepoPath, file |-> file]}
  /\ UNCHANGED <<fileDiff, selectedIndices, patch, splitVars, selectedFile,
                 selectedFileDiff, delivered, toggledAt, viewMode, isStaging,
                 stage, staged, pending, selectedRepoPath, diffRepo, applyCall>>

\* get_file_diff answers a selectFile of the user
RepoDiffLoaded(req, diff) ==
  /\ req \in requests
  /\ delivered < MaxDiffs
  /\ requests' = requests \ {req}
  /\ StoreSet(req.file, diff)
  /\ diffRepo' = req.repo
  /\ isStaging' = StagingAfter(req.file)
  /\ UNCHANGED <<fileDiff, patch, splitVars, stage, staged, pending,
                 selectedRepoPath, applyCall>>

\* get_file_diff fails for a selectFile of the user
RepoDiffFailed(req) ==
  /\ req \in requests
  /\ requests' = requests \ {req}
  /\ StoreSet(req.file, NoDiff)
  /\ diffRepo' = NoRepo
  /\ isStaging' = StagingAfter(req.file)
  /\ UNCHANGED <<fileDiff, patch, splitVars, stage, staged, pending,
                 selectedRepoPath, applyCall>>

\* the stage button: stageChunk(effectiveRepoPath, patch) up to its await of
\* apply_patch, effectiveRepoPath being the repoPath prop
RepoStageClick ==
  /\ Shown
  /\ selectedIndices # {}
  /\ ~isStaging
  /\ stage = "idle"
  /\ isStaging' = TRUE
  /\ fileDiff' = selectedFileDiff
  /\ patch' = generatePatch(selectedFileDiff, selectedIndices)
  /\ staged' = [file |-> selectedFile, diffId |-> DiffId,
                selection |-> selectedIndices, applied |-> FALSE,
                fetched |-> NoFile, mounted |-> TRUE]
  /\ applyCall' = [into |-> selectedRepoPath, from |-> diffRepo]
  /\ stage' = "applying"
  /\ UNCHANGED <<selectedIndices, splitVars, selectedFile, selectedFileDiff,
                 delivered, toggledAt, viewMode, pending, selectedRepoPath,
                 diffRepo, requests>>

\* get_file_diff answers stageChunk's selectFile(repoPath, selectedFile),
\* repoPath being the argument stageChunk was called with
RepoStageDiffLoaded(diff) ==
  /\ stage = "fetching"
  /\ diff \in DiffsOf(staged.fetched)
  /\ delivered < MaxDiffs
  /\ StoreSet(staged.fetched, diff)
  /\ diffRepo' = applyCall.into
  /\ StageEnds
  /\ staged' = [staged EXCEPT !.selection = {}, !.diffId = 0, !.mounted = FALSE]
  /\ UNCHANGED <<splitVars, pending, selectedRepoPath, requests, applyCall>>

\* get_file_diff fails for stageChunk's selectFile
RepoStageDiffFailed ==
  /\ stage = "fetching"
  /\ StoreSet(staged.fetched, NoDiff)
  /\ diffRepo' = NoRepo
  /\ StageEnds
  /\ staged' = [staged EXCEPT !.selection = {}, !.diffId = 0, !.mounted = FALSE]
  /\ UNCHANGED <<splitVars, pending, selectedRepoPath, requests, applyCall>>

NextRepo ==
  \/ \E repo \in Repos : SelectRepo(repo)
  \/ \E file \in RepoFiles : RepoSelectFile(file)
  \/ \E req \in requests : \E diff \in DiffsOf(req.file) : RepoDiffLoaded(req, diff)
  \/ \E req \in requests : RepoDiffFailed(req)
  \/ \E h \in 0..(Len(selectedFileDiff.hunks) - 1) :
       \E l \in 0..(Len(selectedFileDiff.hunks[h + 1].lines) - 1) :
          ClickUnified(h, l)
  \/ RepoStageClick
  \/ ApplyOk
  \/ ApplyFail
  \/ RefreshDone
  \/ \E diff \in ShellDiffs : RepoStageDiffLoaded(diff)
  \/ RepoStageDiffFailed

SpecRepo == InitRepo /\ [][NextRepo]_vars

(***************************************************************************)
(* Reading a patch text back: its lines, and its hunk blocks.              *)
(***************************************************************************)
RECURSIVE LineEnd(_, _)
LineEnd(t, p) == IF p > Len(t) \/ t[p] = NL THEN p ELSE LineEnd(t, p + 1)

\* the lines of a text, a line being what precedes each line end
RECURSIVE TextLinesFrom(_, _)
TextLinesFrom(t, p) ==
  IF p > Len(t) THEN <<>>
  ELSE LET e == LineEnd(t, p)
       IN  <<SubSeq(t, p, e - 1)>> \o TextLinesFrom(t, e + 1)

TextLines(t) == TextLinesFrom(t, 1)

StartsWithChar(ln, cs) == Len(ln) > 0 /\ ln[1] \in cs

\* the lines after the two preamble lines, grouped under their "@@" lines;
\* a line that precedes every "@@" line gets a block with an empty header
RECURSIVE BlocksOf(_)
BlocksOf(lns) ==
  IF Len(lns) = 0 THEN <<>>
  ELSE LET last == lns[Len(lns)]
           front == BlocksOf(SubSeq(lns, 1, Len(lns) - 1))
       IN  IF StartsWithChar(last, {"@"})
           THEN Append(front, [header |-> last, body |-> <<>>])
           ELSE IF Len(front) = 0
           THEN <<[header |-> <<>>, body |-> <<last>>]>>
           ELSE [front EXCEPT ![Len(front)].body = Append(@, last)]

PatchLines == TextLines(patch)

PatchBlocks == BlocksOf(SubSeq(PatchLines, 3, Len(PatchLines)))

\* a length token of a header: absent means 1
LenToken(g) == IF Len(g) = 0 THEN 1 ELSE parseInt(g)

\* the two lengths a header states
HeaderLens(hdr) ==
  LET m == MatchAt(hdr, 1)
  IN  [old |-> LenToken(m.g2), new |-> LenToken(m.g4)]

CountStarting(body, cs) ==
  Cardinality({j \in 1..Len(body) : StartsWithChar(body[j], cs)})

\* the contents of the body lines that carry marker c, in order
RECURSIVE Marked(_, _)
Marked(body, c) ==
  IF Len(body) = 0 THEN <<>>
  ELSE (IF StartsWithChar(body[1], {c}) THEN <<Tail(body[1])>> ELSE <<>>)
         \o Marked(Tail(body), c)

(***************************************************************************)
(* What the diff and the selection say, independently of the synthesizer.  *)
(***************************************************************************)
HunkLines(h) == fileDiff.hunks[h + 1].lines

Selected(h, l) == Key(h, l) \in selectedIndices

\* zero-based indices of the lines of hunk h with origin o
LinesOf(h, o) == {l \in 0..(Len(HunkLines(h)) - 1) : HunkLines(h)[l + 1].origin = o}

SelectedOf(h, o) == {l \in LinesOf(h, o) : Selected(h, l)}

HasSelectedChange(h) == SelectedOf(h, "+") \cup SelectedOf(h, "-") # {}

RECURSIVE SortedSeq(_)
SortedSeq(S) ==
  IF S = {} THEN <<>>
  ELSE LET m == CHOOSE x \in S : \A y \in S : x <= y
       IN  <<m>> \o SortedSeq(S \ {m})

\* the hunks expected in the patch, in order
ExpectedHunks ==
  SortedSeq({h \in 0..(Len(fileDiff.hunks) - 1) :
               /\ headerMatch(fileDiff.hunks[h + 1].header).matched
               /\ HasSelectedChange(h)})

\* lines of hunk h expected in its block: context, deletions, selected additions
KeptLines(h) == LinesOf(h, " ") \cup LinesOf(h, "-") \cup SelectedOf(h, "+")

\* position in the block of kept line l
Rank(h, l) == Cardinality({k \in KeptLines(h) : k <= l})

ContentsOf(h, ls) == [k \in 1..Len(ls) |-> HunkLines(h)[ls[k] + 1].content]

ExpectedOldLen(h) == Cardinality(LinesOf(h, " ")) + Cardinality(LinesOf(h, "-"))

ExpectedNewLen(h) ==
  Cardinality(LinesOf(h, " "))
    + Cardinality(LinesOf(h, "-") \ SelectedOf(h, "-"))
    + Cardinality(SelectedOf(h, "+"))

\* the lengths expected in the header of hunk h
ExpectedLens(h) == [old |-> ExpectedOldLen(h), new |-> ExpectedNewLen(h)]

(***************************************************************************)
(* Properties of the patch synthesizer                                     *)
(***************************************************************************)
\* C1: in the returned text every hunk header's old length is the number of
\* the hunk's emitted lines starting with '-' or ' ', and its new length the
\* number starting with '+' or ' ' (an absent length token meaning 1).
HeaderArithmetic ==
  pc = "patched" =>
    LET blocks == PatchBlocks
    IN  \A k \in 1..Len(blocks) :
          LET b == blocks[k]
          IN  /\ MatchAt(b.header, 1).matched
              /\ HeaderLens(b.header) =
                   [old |-> CountStarting(b.body, {"-", " "}),
                    new |-> CountStarting(b.body, {"+", " "})]

\* a patch with a hunk whose old length token is absent and whose lengths differ
HeaderArithmeticWitness ==
  /\ pc = "patched"
  /\ LET blocks == PatchBlocks
     IN  \E k \in 1..Len(blocks) :
           LET m == MatchAt(blocks[k].header, 1)
           IN  /\ m.matched
               /\ Len(m.g2) = 0
               /\ Len(m.g4) > 0
               /\ CountStarting(blocks[k].body, {"+"}) > 0
               /\ CountStarting(blocks[k].body, {" "}) > 0

\* C2: a deletion that is not selected is emitted, whenever its hunk is
\* emitted, as ' ' + content at its original position among the emitted
\* lines, and is counted in both lengths of the header.
UnselectedDeletionIsContext ==
  pc = "patched" =>
    LET blocks == PatchBlocks
        hunks == ExpectedHunks
    IN  /\ Len(blocks) = Len(hunks)
        /\ \A k \in 1..Len(hunks) :
             LET h == hunks[k]
                 b == blocks[k]
             IN  /\ \A l \in LinesOf(h, "-") \ SelectedOf(h, "-") :
                      /\ Rank(h, l) <= Len(b.body)
                      /\ b.body[Rank(h, l)] = <<" ">> \o HunkLines(h)[l + 1].content
                 /\ HeaderLens(b.header) = ExpectedLens(h)

\* an emitted hunk with an unselected deletion between two emitted lines
UnselectedDeletionWitness ==
  /\ pc = "patched"
  /\ LET blocks == PatchBlocks
         hunks == ExpectedHunks
     IN  \E k \in 1..Len(hunks) :
           \E l \in LinesOf(hunks[k], "-") \ SelectedOf(hunks[k], "-") :
             /\ Rank(hunks[k], l) > 1
             /\ Rank(hunks[k], l) < Len(blocks[k].body)

\* C3: in every emitted hunk the '+' lines are exactly the selected
\* additions in order and the '-' lines exactly the selected deletions in
\* order; an unselected addition yields no line and touches neither length.
ExactlySelectedChanges ==
  pc = "patched" =>
    LET blocks == PatchBlocks
        hunks == ExpectedHunks
    IN  /\ Len(blocks) = Len(hunks)
        /\ \A k \in 1..Len(hunks) :
             LET h == hunks[k]
                 b == blocks[k]
             IN  /\ Marked(b.body, "+") = ContentsOf(h, SortedSeq(SelectedOf(h, "+")))
                 /\ Marked(b.body, "-") = ContentsOf(h, SortedSeq(SelectedOf(h, "-")))
                 /\ Len(b.body) = Cardinality(KeptLines(h))
                 /\ HeaderLens(b.header) = ExpectedLens(h)

\* an emitted hunk with a selected and an unselected addition
ExactlySelectedWitness ==
  /\ pc = "patched"
  /\ LET blocks == PatchBlocks
         hunks == ExpectedHunks
     IN  \E k \in 1..Len(hunks) :
           LET h == hunks[k]
           IN  /\ SelectedOf(h, "+") # {}
               /\ LinesOf(h, "+") \ SelectedOf(h, "+") # {}
               /\ Len(blocks[k].body) < Len(HunkLines(h))

NoChangeSelected ==
  \A h \in 0..(Len(fileDiff.hunks) - 1) : ~HasSelectedChange(h)

\* C4: with a selection that holds no addition or deletion of the diff, the
\* empty selection included, the result is the two preamble lines and no
\* hunk block.
NoSelectionNoHunks ==
  (pc = "patched" /\ NoChangeSelected) =>
    LET lines == PatchLines
    IN  /\ Len(lines) = 2
        /\ \A k \in 1..Len(lines) : ~StartsWithChar(lines[k], {"@"})
        /\ patch = Preamble(fileDiff)

\* a selection of keys of other lines only, on a diff with changes under a
\* header that parses
NoSelectionWitness ==
  /\ pc = "patched"
  /\ NoChangeSelected
  /\ selectedIndices # {}
  /\ Len(PatchLines) = 2
  /\ \E h \in 0..(Len(fileDiff.hunks) - 1) :
       /\ headerMatch(fileDiff.hunks[h + 1].header).matched
       /\ LinesOf(h, "+") # {}
       /\ LinesOf(h, " ") # {}
       /\ Key(h, CHOOSE l \in LinesOf(h, " ") : TRUE) \in selectedIndices

\* the hunks (zero-based indices) that contribute a block under selection S
Contributing(fd, S) ==
  {h \in 0..(Len(fd.hunks) - 1) : Len(HunkText(fd, h, S)) > 0}

\* the explored selections that are part of selection S
SubSelections(fd, S) ==
  {S1 \cup T : S1 \in SUBSET (S \cap ChangeKeys(fd)),
               T \in {{}, S \ ChangeKeys(fd)}}

\* C5: a hunk that contributes a block under a selection contributes one
\* under every larger selection.
SelectionMonotone ==
  pc = "patched" =>
    LET present == Contributing(fileDiff, selectedIndices)
    IN  /\ Cardinality(present) = Len(PatchBlocks)
        /\ \A S1 \in SubSelections(fileDiff, selectedIndices) :
             Contributing(fileDiff, S1) \subseteq present

\* a hunk present under a one-line selection and under a strictly larger one
SelectionMonotoneWitness ==
  /\ pc = "patched"
  /\ Len(PatchBlocks) > 0
  /\ \E S1 \in SubSelections(fileDiff, selectedIndices) :
       /\ Cardinality(S1) = 1
       /\ \E h \in Contributing(fileDiff, S1) :
            Cardinality(SelectedOf(h, "+") \cup SelectedOf(h, "-")) > 1

\* the hunk of zero-based index h written out with its original markers
OriginalBody(h) ==
  [l \in 1..Len(HunkLines(h)) |->
     <<HunkLines(h)[l].origin>> \o HunkLines(h)[l].content]

EveryChangeSelected ==
  \A h \in 0..(Len(fileDiff.hunks) - 1) :
    /\ SelectedOf(h, "+") = LinesOf(h, "+")
    /\ SelectedOf(h, "-") = LinesOf(h, "-")

\* C6 as stated: with every addition and deletion selected, the hunks of
\* the result are the original hunks, line for line with the original
\* markers.
FullSelectionRecoversEveryHunk ==
  (pc = "patched" /\ EveryChangeSelected) =>
    LET blocks == PatchBlocks
    IN  /\ Len(blocks) = Len(fileDiff.hunks)
        /\ \A k \in 1..Len(blocks) : blocks[k].body = OriginalBody(k - 1)

\* the context, addition and deletion lines of hunk h with their markers
RECURSIVE WellFormedBody(_, _)
WellFormedBody(h, l) ==
  IF l > Len(HunkLines(h)) THEN <<>>
  ELSE (IF HunkLines(h)[l].origin \in {" ", "+", "-"}
        THEN <<OriginalBody(h)[l]>> ELSE <<>>)
         \o WellFormedBody(h, l + 1)

\* C6 (amended): with every addition and deletion selected, the result has
\* one block for each hunk whose header parses and that has an addition or
\* a deletion, in the original order, and the block's lines are the hunk's
\* context, addition and deletion lines in order with their original
\* markers; no deletion is turned into context.
FullSelectionRecoversChangedHunks ==
  (pc = "patched" /\ EveryChangeSelected) =>
    LET blocks == PatchBlocks
        hunks == SortedSeq({h \in 0..(Len(fileDiff.hunks) - 1) :
                              /\ headerMatch(fileDiff.hunks[h + 1].header).matched
                              /\ LinesOf(h, "+") \cup LinesOf(h, "-") # {}})
    IN  /\ Len(blocks) = Len(hunks)
        /\ \A k \in 1..Len(hunks) : blocks[k].body = WellFormedBody(hunks[k], 1)

\* a fully selected diff of two emitted hunks, with a deletion and an addition
FullSelectionWitness ==
  /\ pc = "patched"
  /\ EveryChangeSelected
  /\ Len(PatchBlocks) = 2
  /\ \E h \in 0..(Len(fileDiff.hunks) - 1) : LinesOf(h, "-") # {}
  /\ \E h \in 0..(Len(fileDiff.hunks) - 1) : LinesOf(h, "+") # {}

\* C7: for the hunk '@@ -10,3 +10,4 @@' with lines context a, deletion b,
\* addition x, addition y, context c, selecting only x gives the header
\* '@@ -10,3 +10,4 @@' followed by exactly ' a', ' b', '+x', ' c'.
ConcreteScenario ==
  (/\ pc = "patched"
   /\ fileDiff = ScenarioDiff
   /\ selectedIndices = {<<"0", "-", "2">>}) =>
    SubSeq(PatchLines, 3, Len(PatchLines)) =
      << <<"@", "@", " ", "-", "1", "0", ",", "3", " ", "+", "1", "0", ",", "4", " ", "@", "@">>,
         <<" ", "a">>,
         <<" ", "b">>,
         <<"+", "x">>,
         <<" ", "c">> >>

\* the scenario's patch has been produced
ConcreteScenarioWitness ==
  /\ pc = "patched"
  /\ fileDiff = ScenarioDiff
  /\ selectedIndices = {<<"0", "-", "2">>}
  /\ Len(PatchLines) = 7

\* C10: the result begins with '--- /dev/null' and '+++ b/{path}' exactly
\* when the diff has a hunk and its first hunk's header begins with
\* '@@ -0,0'; otherwise with '--- a/{path}' and '+++ b/{path}'; whatever
\* the selection and whether or not that hunk is emitted.
PreamblePolicy ==
  pc = "patched" =>
    LET lines == PatchLines
    IN  /\ Len(lines) >= 2
        /\ lines[2] = <<"+", "+", "+", " ", "b", "/">> \o fileDiff.path
        /\ IF /\ Len(fileDiff.hunks) > 0
              /\ SubSeq(fileDiff.hunks[1].header, 1, 7) = <<"@", "@", " ", "-", "0", ",", "0">>
           THEN lines[1] = <<"-", "-", "-", " ", "/", "d", "e", "v", "/", "n", "u", "l", "l">>
           ELSE lines[1] = <<"-", "-", "-", " ", "a", "/">> \o fileDiff.path

\* a new-file preamble above no hunk at all, the first hunk having a
\* selected addition but a header that does not parse
PreamblePolicyWitness ==
  /\ pc = "patched"
  /\ Len(fileDiff.hunks) > 0
  /\ HasSelectedChange(0)
  /\ ~headerMatch(fileDiff.hunks[1].header).matched
  /\ Len(PatchLines) = 2
  /\ PatchLines[1] = <<"-", "-", "-", " ", "/", "d", "e", "v", "/", "n", "u", "l", "l">>

(***************************************************************************)
(* Properties of the split-view alignment                                  *)
(***************************************************************************)
SplitLinesOf == fileDiff.hunks[hunkIndex + 1].lines

WellFormedHunk == \A l \in 1..Len(SplitLinesOf) : SplitLinesOf[l].origin \in {" ", "+", "-"}

\* the lines on one side of the rows, top to bottom, absent ones left out
RECURSIVE SideOf(_, _)
SideOf(rs, side) ==
  IF Len(rs) = 0 THEN <<>>
  ELSE (IF rs[1][side] = Null THEN <<>> ELSE <<rs[1][side]>>)
         \o SideOf(Tail(rs), side)

\* the lines of the hunk whose origin is in os, in order
RECURSIVE LinesWith(_, _)
LinesWith(lines, os) ==
  IF Len(lines) = 0 THEN <<>>
  ELSE (IF lines[1].origin \in os THEN <<lines[1]>> ELSE <<>>)
         \o LinesWith(Tail(lines), os)

Occurrences(seq, v) == Cardinality({k \in 1..Len(seq) : seq[k] = v})

LineValues == {SplitLinesOf[l] : l \in 1..Len(SplitLinesOf)}

\* C8: the rows reference exactly the lines of the hunk: every context line
\* once, by a row that has it on both sides, every deletion once on the
\* left, every addition once on the right, and nothing else.
RowCoverage ==
  (pc = "aligned" /\ WellFormedHunk) =>
    /\ \A v \in LineValues \cup {rows[r].left : r \in 1..Len(rows)}
                          \cup {rows[r].right : r \in 1..Len(rows)} :
         v # Null =>
           /\ Occurrences(SideOf(rows, "left"), v)
                = Occurrences(LinesWith(SplitLinesOf, {" ", "-"}), v)
           /\ Occurrences(SideOf(rows, "right"), v)
                = Occurrences(LinesWith(SplitLinesOf, {" ", "+"}), v)
    /\ \A r \in 1..Len(rows) :
         /\ (rows[r].left.origin = " ") = (rows[r].right.origin = " ")
         /\ rows[r].left.origin = " " => rows[r].left = rows[r].right
         /\ rows[r].left # Null \/ rows[r].right # Null

\* rows of a hunk with context, more deletions than additions directly
\* after them, and an addition elsewhere
RowCoverageWitness ==
  /\ pc = "aligned"
  /\ Len(SplitLinesOf) = MaxSplitLines
  /\ \E r \in 1..Len(rows) : rows[r].left.origin = "-" /\ rows[r].right.origin = "+"
  /\ \E r \in 1..Len(rows) : rows[r].left.origin = "-" /\ rows[r].right = Null
  /\ \E r \in 1..Len(rows) : rows[r].left = Null
  /\ \E r \in 1..Len(rows) : rows[r].left.origin = " "

\* C9: top to bottom, the left lines of the rows are the deletion and
\* context lines of the hunk in their original order, and the right lines
\* are its addition and context lines in their original order.
RowOrder ==
  (pc = "aligned" /\ WellFormedHunk) =>
    /\ SideOf(rows, "left") = LinesWith(SplitLinesOf, {" ", "-"})
    /\ SideOf(rows, "right") = LinesWith(SplitLinesOf, {" ", "+"})

\* rows of a hunk where additions precede deletions that precede additions
RowOrderWitness ==
  /\ pc = "aligned"
  /\ Len(SplitLinesOf) >= 4
  /\ SplitLinesOf[1].origin = "+"
  /\ SplitLinesOf[2].origin = "-"
  /\ SplitLinesOf[3].origin = "-"
  /\ SplitLinesOf[4].origin = "+"
  /\ Len(rows) = Len(SplitLinesOf) - 1

(***************************************************************************)
(* Further properties of the patch synthesizer                             *)
(***************************************************************************)
\* a length token as the header convention writes it: nothing for 1,
\* otherwise a comma and the decimal digits
LenText(g) == IF Len(g) = 0 THEN <<>> ELSE <<",">> \o g

\* C11: every emitted header reads '@@ -{oldStart}[,{oldLen}] +{newStart}
\* [,{newLen}] @@' and nothing more, the two starts being the numbers of
\* the original header, and a length token is absent exactly when the
\* length is 1 (a length 0 is written ',0').
HeaderForm ==
  pc = "patched" =>
    LET blocks == PatchBlocks
        hunks == ExpectedHunks
    IN  /\ Len(blocks) = Len(hunks)
        /\ \A k \in 1..Len(hunks) :
             LET m == MatchAt(blocks[k].header, 1)
                 o == headerMatch(fileDiff.hunks[hunks[k] + 1].header)
                 lens == ExpectedLens(hunks[k])
             IN  /\ m.matched
                 /\ blocks[k].header =
                      <<"@", "@", " ", "-">> \o m.g1 \o LenText(m.g2)
                        \o <<" ", "+">> \o m.g3 \o LenText(m.g4)
                        \o <<" ", "@", "@">>
                 /\ parseInt(m.g1) = parseInt(o.g1)
                 /\ parseInt(m.g3) = parseInt(o.g3)
                 /\ m.g1[1] = "0" => Len(m.g1) = 1
                 /\ m.g3[1] = "0" => Len(m.g3) = 1
                 /\ (Len(m.g2) = 0) = (lens.old = 1)
                 /\ (Len(m.g4) = 0) = (lens.new = 1)
                 /\ Len(m.g2) > 0 => (parseInt(m.g2) = lens.old /\ m.g2 = NumToStr(lens.old))
                 /\ Len(m.g4) > 0 => (parseInt(m.g4) = lens.new /\ m.g4 = NumToStr(lens.new))

\* a header with the old length written ',0' and the new length left out,
\* made from an original header that carried text after the closing '@@'
HeaderFormWitness ==
  /\ pc = "patched"
  /\ LET blocks == PatchBlocks
         hunks == ExpectedHunks
     IN  /\ Len(blocks) = Len(hunks)
         /\ \E k \in 1..Len(hunks) :
              LET m == MatchAt(blocks[k].header, 1)
              IN  /\ m.matched
                  /\ m.g2 = <<"0">>
                  /\ Len(m.g4) = 0
                  /\ Len(fileDiff.hunks[hunks[k] + 1].header) > Len(blocks[k].header)

Parses(h) == headerMatch(fileDiff.hunks[h + 1].header).matched

\* the diff with the lines of every hunk whose header does not parse taken
\* away and that header replaced by one that parses; hunk indices stay
WithoutUnparseable(fd) ==
  [fd EXCEPT !.hunks =
     [h \in 1..Len(fd.hunks) |->
        IF headerMatch(fd.hunks[h].header).matched THEN fd.hunks[h]
        ELSE [header |-> Headers[1], lines |-> <<>>]]]

\* C12: a hunk whose header does not parse contributes no text, and every
\* other hunk is emitted as it would be without that hunk in the walk, the
\* hunk indices looked up in the selection staying the same.
UnparseableSkipped ==
  pc = "patched" =>
    LET lines == PatchLines
        other == TextLines(generatePatch(WithoutUnparseable(fileDiff), selectedIndices))
        hunks == ExpectedHunks
    IN  /\ SubSeq(lines, 3, Len(lines)) = SubSeq(other, 3, Len(other))
        /\ Len(BlocksOf(SubSeq(lines, 3, Len(lines)))) = Len(hunks)
        /\ \A k \in 1..Len(hunks) : Parses(hunks[k])

\* a hunk that does not parse, with a selected change, in front of a hunk
\* that is emitted
UnparseableSkippedWitness ==
  /\ pc = "patched"
  /\ Len(fileDiff.hunks) = 2
  /\ ~Parses(0)
  /\ HasSelectedChange(0)
  /\ Parses(1)
  /\ HasSelectedChange(1)
  /\ Len(PatchBlocks) = 1

\* C14: keys that name no addition or deletion of the diff (a missing hunk,
\* a missing line, a context line, no key at all) change nothing: the result
\* is that for the selection restricted to the keys of additions and
\* deletions.
StaleKeysInert ==
  pc = "patched" =>
    patch = generatePatch(fileDiff, {key \in selectedIndices : key \in ChangeKeys(fileDiff)})

\* a patch with a hunk made under a selection that also holds the key of a
\* context line of that hunk
StaleKeysWitness ==
  /\ pc = "patched"
  /\ Len(PatchBlocks) > 0
  /\ \E h \in 0..(Len(fileDiff.hunks) - 1) :
       /\ Parses(h)
       /\ HasSelectedChange(h)
       /\ SelectedOf(h, " ") # {}
  /\ Key(Len(fileDiff.hunks), 0) \in selectedIndices

(***************************************************************************)
(* Further properties of the split-view alignment                          *)
(***************************************************************************)
\* C19: on a hunk whose lines are all context, additions or deletions, the
\* empty hunk included, the row-building loop ends, having passed every
\* line (i is the number of lines), and an empty hunk gives no row.
AlignmentTotal ==
  /\ [](pc = "aligned" => i = Len(SplitLinesOf))
  /\ []((pc = "aligned" /\ Len(SplitLinesOf) = 0) => Len(rows) = 0)
  /\ [](pc = "aligning" => i <= Len(SplitLinesOf))
  /\ (pc = "aligning" /\ WellFormedHunk) ~> (pc = "aligned")

\* the loop has ended on a hunk of the greatest explored length that has
\* lines of all three kinds
AlignmentTotalWitness ==
  /\ pc = "aligned"
  /\ WellFormedHunk
  /\ Len(SplitLinesOf) = MaxSplitLines
  /\ i = MaxSplitLines
  /\ {SplitLinesOf[l].origin : l \in 1..Len(SplitLinesOf)} = {" ", "+", "-"}

\* origin of the line with zero-based index l of the rendered hunk
OriginAt(l) == SplitLinesOf[l + 1].origin

\* zero-based indices at which a maximal run of deletions starts
RunStarts ==
  {l \in 0..(Len(SplitLinesOf) - 1) :
     OriginAt(l) = "-" /\ (l = 0 \/ OriginAt(l - 1) # "-")}

\* length d of the maximal run of deletions that starts at l
DelLen(l) ==
  CHOOSE d \in 1..(Len(SplitLinesOf) - l) :
    /\ \A k \in 0..(d - 1) : OriginAt(l + k) = "-"
    /\ l + d = Len(SplitLinesOf) \/ OriginAt(l + d) # "-"

\* length a of the maximal run of additions right after that run
AddLen(l) ==
  LET s == l + DelLen(l)
  IN  CHOOSE a \in 0..(Len(SplitLinesOf) - s) :
        /\ \A k \in 0..(a - 1) : OriginAt(s + k) = "+"
        /\ s + a = Len(SplitLinesOf) \/ OriginAt(s + a) # "+"

Min(a, b) == IF a <= b THEN a ELSE b

\* sum of f[x] over the x of S
RECURSIVE SumOver(_, _)
SumOver(S, f) ==
  IF S = {} THEN 0
  ELSE LET x == CHOOSE y \in S : TRUE IN f[x] + SumOver(S \ {x}, f)

\* additions that belong to the addition run of some deletion run
PairedAdditions ==
  UNION {(b + DelLen(b))..(b + DelLen(b) + AddLen(b) - 1) : b \in RunStarts}

\* number (from 1) of the first row of the block that starts at line b: one
\* row per earlier line, less the rows shared by a deletion and an addition
FirstRowOf(b) ==
  LET shared == [x \in RunStarts |-> Min(DelLen(x), AddLen(x))]
  IN  b + 1 - SumOver({x \in RunStarts : x < b}, shared)

\* C20: a maximal run of d deletions directly followed by a maximal run of
\* a additions gives exactly max(d, a) rows, the k-th with the k-th
\* deletion on the left if k < d and the k-th addition on the right if
\* k < a, absent otherwise; the number of rows is the number of context
\* lines plus the sum of max(d, a) plus the additions that follow no
\* deletion run.
PairingRule ==
  (pc = "aligned" /\ WellFormedHunk) =>
    LET n == Len(SplitLinesOf)
        rowsOfBlock == [b \in RunStarts |-> Max(DelLen(b), AddLen(b))]
        context == {l \in 0..(n - 1) : OriginAt(l) = " "}
        additions == {l \in 0..(n - 1) : OriginAt(l) = "+"}
    IN  /\ Len(rows) = Cardinality(context) + SumOver(RunStarts, rowsOfBlock)
                         + Cardinality(additions \ PairedAdditions)
        /\ \A b \in RunStarts :
             LET d == DelLen(b)
                 a == AddLen(b)
                 r == FirstRowOf(b)
             IN  /\ r + Max(d, a) - 1 <= Len(rows)
                 /\ \A k \in 0..(Max(d, a) - 1) :
                      /\ rows[r + k].left =
                           IF k < d THEN SplitLinesOf[b + k + 1] ELSE Null
                      /\ rows[r + k].right =
                           IF k < a THEN SplitLinesOf[b + d + k + 1] ELSE Null

\* rows of a hunk with an addition that follows no deletion and two
\* deletion runs, one of them longer than its additions
PairingRuleWitness ==
  /\ pc = "aligned"
  /\ WellFormedHunk
  /\ Cardinality(RunStarts) = 2
  /\ \E b \in RunStarts : DelLen(b) > AddLen(b)
  /\ \E b \in RunStarts : AddLen(b) > 0
  /\ \E l \in 0..(Len(SplitLinesOf) - 1) : OriginAt(l) = "+" /\ l \notin PairedAdditions

(***************************************************************************)
(* The stage action of DiffView.                                           *)
(***************************************************************************)
\* C13: whenever apply_patch is invoked, the patch handed to it has at least
\* one hunk block: a patch that is only a preamble never reaches the backend
ApplyHasHunks == stage = "applying" => Len(PatchBlocks) > 0

\* C15: every key of the selection was toggled on the diff object now shown,
\* in every state and so at every call of generatePatch, and every step that
\* replaces the diff object leaves the selection empty
SelectionOfCurrentDiff ==
  /\ [](\A key \in selectedIndices : toggledAt[key] = DiffId)
  /\ [][DiffId' # DiffId => selectedIndices' = {}]_vars

\* a stage action is over, it fetched the diff of the staged file anew, and
\* the selection that was staged is gone
SelectionOfCurrentDiffWitness ==
  /\ stage = "idle"
  /\ staged.applied
  /\ staged.fetched = staged.file
  /\ Shown
  /\ selectedFile = staged.file
  /\ DiffId >= 2
  /\ selectedIndices = {}

\* C16: the selection holds only keys of additions and deletions of the diff
\* now shown; with no diff shown it is empty
OnlyChangeKeys == selectedIndices \subseteq ChangeKeys(selectedFileDiff)

\* every change line of a diff that also has a context line is selected, in
\* the split view
OnlyChangeKeysWitness ==
  /\ Shown
  /\ viewMode = "split"
  /\ selectedIndices # {}
  /\ selectedIndices = ChangeKeys(selectedFileDiff)
  /\ \E h \in 1..Len(selectedFileDiff.hunks) :
       \E l \in 1..Len(selectedFileDiff.hunks[h].lines) :
          selectedFileDiff.hunks[h].lines[l].origin = " "

\* C17: the step in which apply_patch fails does not leave a key of the
\* staged selection selected on the diff object the patch was made from
FailedApplyClearsSelection ==
  [][(stage = "applying" /\ stage' = "idle")
       => ~(/\ DiffId' = staged.diffId
            /\ selectedIndices' \cap staged.selection # {})]_vars

\* C18 as stated: the patch is synthesized before apply_patch is invoked, no
\* diff is requested by the stage action before apply_patch has returned,
\* and after a successful apply_patch the diff of the staged file is
\* requested before the stage action is over
RefetchesStagedFile ==
  /\ stage = "applying" =>
       /\ patch = generatePatch(fileDiff, staged.selection)
       /\ ~staged.applied
       /\ staged.fetched = NoFile
  /\ stage = "refreshing" => (staged.applied /\ staged.fetched = NoFile)
  /\ stage = "fetching" => (staged.applied /\ staged.fetched = staged.file)
  /\ (stage = "idle" /\ staged.applied) => staged.fetched = staged.file

\* C18: the patch is synthesized before apply_patch is invoked, no diff is
\* requested by the stage action before apply_patch has returned, and after
\* a successful apply_patch and the status refresh the stage action requests
\* the diff of the file the store has selected at that moment, and none if
\* no file is selected
RefetchesSelectedFile ==
  /\ [](stage = "applying" =>
          /\ patch = generatePatch(fileDiff, staged.selection)
          /\ ~staged.applied
          /\ staged.fetched = NoFile)
  /\ [](stage = "refreshing" => (staged.applied /\ staged.fetched = NoFile))
  /\ [](stage = "fetching" => (staged.applied /\ staged.fetched # NoFile))
  /\ [][(stage = "refreshing" /\ stage' # "refreshing")
          => /\ staged'.fetched = selectedFile
             /\ (stage' = "fetching") = (selectedFile # NoFile)
             /\ (stage' = "idle") = (selectedFile = NoFile)]_vars

\* the stage action waits for the diff of a file other than the staged one
RefetchesSelectedFileWitness ==
  /\ stage = "fetching"
  /\ staged.applied
  /\ staged.fetched # staged.file

(***************************************************************************)
(* Rows, their indices and the progress of the loop.                       *)
(***************************************************************************)
\* C21: in every row with a deletion on the left and an addition on the
\* right, the deletion comes before the addition in the hunk and the lines
\* from the one to the other are deletions followed by additions, with no
\* context line among them.
NoPairAcrossContext ==
  \A r \in 1..Len(rows) :
     (rows[r].left.origin = "-" /\ rows[r].right.origin = "+") =>
        LET li == rows[r].leftIndex
            ri == rows[r].rightIndex
        IN  /\ li # Undefined /\ ri # Undefined
            /\ li < ri
            /\ rows[r].left = SplitLinesOf[li + 1]
            /\ rows[r].right = SplitLinesOf[ri + 1]
            /\ \A l \in li..ri : OriginAt(l) \in {"-", "+"}
            /\ \A l \in li..(ri - 1) : OriginAt(l) = "+" => OriginAt(l + 1) = "+"

\* a paired row in a hunk where a deletion is followed by a context line
\* and then an addition, the deletion and that addition in rows of their own
NoPairAcrossContextWitness ==
  /\ pc = "aligned"
  /\ \E r \in 1..Len(rows) :
       /\ rows[r].left.origin = "-"
       /\ rows[r].right.origin = "+"
       /\ rows[r].leftIndex < rows[r].rightIndex
  /\ \E l \in 0..(Len(SplitLinesOf) - 3) :
       OriginAt(l) = "-" /\ OriginAt(l + 1) = " " /\ OriginAt(l + 2) = "+"

\* the deletion run that the deletion at line l belongs to
BlockOf(l) == CHOOSE b \in RunStarts : b <= l /\ l < b + DelLen(b)

\* C22: every row that shows a deletion of a run with no addition right
\* after it has nothing on the right, and every addition that does not
\* directly follow a deletion run is the right of exactly one row, whose
\* left is absent.
PureRunsUnpaired ==
  (pc = "aligned" /\ WellFormedHunk) =>
    /\ \A r \in 1..Len(rows) :
         (rows[r].left.origin = "-" /\ AddLen(BlockOf(rows[r].leftIndex)) = 0)
            => (rows[r].right = Null /\ rows[r].rightIndex = Undefined)
    /\ \A b \in RunStarts :
         AddLen(b) = 0 =>
           \A l \in b..(b + DelLen(b) - 1) :
              \E r \in 1..Len(rows) : rows[r].leftIndex = l
    /\ \A l \in 0..(Len(SplitLinesOf) - 1) :
         (OriginAt(l) = "+" /\ l \notin PairedAdditions) =>
           /\ Cardinality({r \in 1..Len(rows) : rows[r].rightIndex = l}) = 1
           /\ \A r \in 1..Len(rows) :
                rows[r].rightIndex = l =>
                   /\ rows[r].left = Null
                   /\ rows[r].leftIndex = Undefined
                   /\ rows[r].right = SplitLinesOf[l + 1]

\* a hunk that opens with an addition followed by a deletion run without
\* additions, and has an addition after a context line
PureRunsUnpairedWitness ==
  /\ pc = "aligned"
  /\ WellFormedHunk
  /\ Len(SplitLinesOf) >= 4
  /\ OriginAt(0) = "+"
  /\ OriginAt(1) = "-"
  /\ AddLen(1) = 0
  /\ \E l \in 1..(Len(SplitLinesOf) - 1) : OriginAt(l) = "+" /\ OriginAt(l - 1) = " "
  /\ rows[1].left = Null
  /\ rows[2].right = Null

\* the indices of one side of the rows, top to bottom, undefined ones left out
RECURSIVE IndicesOf(_, _)
IndicesOf(rs, side) ==
  IF Len(rs) = 0 THEN <<>>
  ELSE (IF rs[1][side] = Undefined THEN <<>> ELSE <<rs[1][side]>>)
         \o IndicesOf(Tail(rs), side)

Increasing(q) == \A k \in 1..(Len(q) - 1) : q[k] < q[k + 1]

\* C25: in every row leftIndex is defined exactly when left is a line, and
\* is then the index in hunk.lines of that line; the same for rightIndex and
\* right; the indices of each side grow from row to row; the key made of
\* the hunk index and the index of a deletion or addition of a row is the
\* key of that line in the diff.
RowIndices ==
  /\ \A r \in 1..Len(rows) :
       /\ (rows[r].leftIndex = Undefined) = (rows[r].left = Null)
       /\ (rows[r].rightIndex = Undefined) = (rows[r].right = Null)
       /\ rows[r].leftIndex # Undefined =>
            /\ rows[r].leftIndex \in 0..(Len(SplitLinesOf) - 1)
            /\ rows[r].left = SplitLinesOf[rows[r].leftIndex + 1]
            /\ rows[r].left.origin = "-" =>
                 Key(hunkIndex, rows[r].leftIndex) \in ChangeKeys(fileDiff)
       /\ rows[r].rightIndex # Undefined =>
            /\ rows[r].rightIndex \in 0..(Len(SplitLinesOf) - 1)
            /\ rows[r].right = SplitLinesOf[rows[r].rightIndex + 1]
            /\ rows[r].right.origin = "+" =>
                 Key(hunkIndex, rows[r].rightIndex) \in ChangeKeys(fileDiff)
  /\ Increasing(IndicesOf(rows, "leftIndex"))
  /\ Increasing(IndicesOf(rows, "rightIndex"))

\* rows of a block of two deletions and two additions that follows a
\* context line: the second row has both indices defined and different
RowIndicesWitness ==
  /\ pc = "aligned"
  /\ Len(rows) >= 3
  /\ rows[1].left.origin = " "
  /\ rows[3].left.origin = "-"
  /\ rows[3].right.origin = "+"
  /\ rows[3].leftIndex = 2
  /\ rows[3].rightIndex = 4

\* C30: an iteration of the loop leaves i greater than it found it, whatever
\* the origin of the line at i
LoopAdvances ==
  (pc = "aligning" /\ i < Len(SplitLinesOf)) =>
     SplitViewIter(SplitLinesOf, i).i > i

(***************************************************************************)
(* Which hunks a patch has, and how their headers relate.                  *)
(***************************************************************************)
\* C23: the blocks of the patch are, in the order of the diff, the hunks
\* whose header parses and that have a selected addition or deletion; each
\* block has the old start of its hunk and one line per context line,
\* deletion and selected addition of its hunk, with that line's content, so
\* a hunk without a selected change line leaves no line in the patch.
HunkMembership ==
  pc = "patched" =>
    LET blocks == PatchBlocks
        hunks == ExpectedHunks
    IN  /\ Len(blocks) = Len(hunks)
        /\ \A k \in 1..Len(hunks) :
             LET h == hunks[k]
                 kept == KeptLines(h)
                 body == blocks[k].body
             IN  /\ MatchAt(blocks[k].header, 1).matched
                 /\ parseInt(MatchAt(blocks[k].header, 1).g1)
                      = parseInt(headerMatch(fileDiff.hunks[h + 1].header).g1)
                 /\ Len(body) = Cardinality(kept)
                 /\ \A l \in kept :
                      /\ Len(body[Rank(h, l)]) > 0
                      /\ Tail(body[Rank(h, l)]) = HunkLines(h)[l + 1].content

\* both hunks of a diff are in the patch, one of them with a context line
HunkMembershipWitness ==
  /\ pc = "patched"
  /\ Len(fileDiff.hunks) = 2
  /\ Len(PatchBlocks) = 2
  /\ parseInt(MatchAt(PatchBlocks[1].header, 1).g1)
       # parseInt(MatchAt(PatchBlocks[2].header, 1).g1)
  /\ \E h \in 0..1 : LinesOf(h, " ") # {}

\* the headers of fd parse, state the numbers of old and new lines of their
\* hunks, and each new start is the old start plus what the earlier hunks
\* add to the file
ConsistentHeaders(fd) ==
  LET n == Len(fd.hunks)
      old == [h \in 1..n |->
                Cardinality({l \in 1..Len(fd.hunks[h].lines) :
                               fd.hunks[h].lines[l].origin \in {" ", "-"}})]
      new == [h \in 1..n |->
                Cardinality({l \in 1..Len(fd.hunks[h].lines) :
                               fd.hunks[h].lines[l].origin \in {" ", "+"}})]
      growth == [h \in 1..n |-> new[h] - old[h]]
  IN  \A h \in 1..n :
        LET m == headerMatch(fd.hunks[h].header)
        IN  /\ m.matched
            /\ LenToken(m.g2) = old[h]
            /\ LenToken(m.g4) = new[h]
            /\ parseInt(m.g3) = parseInt(m.g1) + SumOver(1..(h - 1), growth)

\* C24: for a diff with consistent headers, the new start of each block of
\* the patch is its old start plus the sum of new length minus old length
\* over the blocks before it in the patch
NewStartsConsistent ==
  (pc = "patched" /\ ConsistentHeaders(fileDiff)) =>
    LET blocks == PatchBlocks
        growth == [k \in 1..Len(blocks) |->
                     HeaderLens(blocks[k].header).new
                       - HeaderLens(blocks[k].header).old]
    IN  \A k \in 1..Len(blocks) :
          LET m == MatchAt(blocks[k].header, 1)
          IN  parseInt(m.g3) = parseInt(m.g1) + SumOver(1..(k - 1), growth)

(***************************************************************************)
(* Toggles and the staging flag of DiffView.                               *)
(***************************************************************************)
\* the keys of the addition and deletion lines of hunk h of fd
HunkChangeKeys(fd, h) ==
  {Key(h, l - 1) : l \in {n \in 1..Len(fd.hunks[h + 1].lines) :
                            IsChange(fd.hunks[h + 1].lines[n])}}

\* C26: a step of the select-all button of hunk h leaves the selection
\* united with the keys of the additions and deletions of hunk h, a step of
\* its deselect-all button leaves the selection minus those keys, and a
\* click on a line in either view changes the membership of the key of that
\* line and of no other key (each of these steps changes the selection
\* and keeps the diff).
ToggleFrame ==
  [][(selectedIndices' # selectedIndices /\ selectedFileDiff' = selectedFileDiff) =>
     /\ \A h \in 0..(Len(selectedFileDiff.hunks) - 1) :
          /\ ClickHunk(h, TRUE) =>
               selectedIndices' =
                 selectedIndices \cup HunkChangeKeys(selectedFileDiff, h)
          /\ ClickHunk(h, FALSE) =>
               selectedIndices' =
                 selectedIndices \ HunkChangeKeys(selectedFileDiff, h)
          /\ \A l \in 0..(Len(selectedFileDiff.hunks[h + 1].lines) - 1) :
               ClickUnified(h, l) =>
                 (selectedIndices' \ selectedIndices)
                   \cup (selectedIndices \ selectedIndices') = {Key(h, l)}
     /\ (\E h \in 0..(Len(selectedFileDiff.hunks) - 1) :
           \E r \in 1..Len(selectedFileDiff.hunks[h + 1].lines) :
              \E side \in {"left", "right"} : ClickSplit(h, r, side))
          => \E key \in ChangeKeys(selectedFileDiff) :
               (selectedIndices' \ selectedIndices)
                 \cup (selectedIndices \ selectedIndices') = {key}
    ]_vars

\* every change line of a diff of two hunks is selected, the diff having a
\* line that is no change line
ToggleFrameWitness ==
  /\ Shown
  /\ Len(selectedFileDiff.hunks) = 2
  /\ HunkChangeKeys(selectedFileDiff, 0) # {}
  /\ HunkChangeKeys(selectedFileDiff, 1) # {}
  /\ selectedIndices = ChangeKeys(selectedFileDiff)
  /\ Len(selectedFileDiff.hunks[1].lines) > Cardinality(HunkChangeKeys(selectedFileDiff, 0))

\* C27: whenever isStaging is true it is false again later
StagingEnds == isStaging ~> ~isStaging

DiffOfSelectedRepo ==
  /\ selectedFileDiff # NoDiff => diffRepo = selectedRepoPath
  /\ stage = "applying" => applyCall.from = applyCall.into

====
